---- MODULE Spec2Model ----
(***************************************************************************)
(* A model of denoflare's local development host, src/cli.ts:              *)
(*   - the start-up sequence and the hot reloader of the isolated-sandbox  *)
(*     mode (createLocalRequestServer, runScript, the watcher loop);       *)
(*   - the request bridge (memoize / computeExternalIp, handle, the accept *)
(*     loop).                                                              *)
(* Every `await` of the source is a point where other tasks may run, so an *)
(* action is the code between two awaits.                                  *)
(***************************************************************************)
EXTENDS Integers, FiniteSets, Sequences, TLC

\* ------------------------------------------------------------------ bounds
MaxEvents == 2      \* file-system events delivered to the watcher loop
MaxWrites == 2      \* writes of the script file
MaxConns  == 2      \* connections accepted by the listener
MaxReqs   == 2      \* requests received over all connections
MaxInfos  == 1      \* onModuleWorkerInfo notifications

\* --------------------------------------------------------------- constants
Debounce == 500     \* the delay of setTimeout(runScript, 500), in ms
Step == Debounce \div 2          \* the granularity of the model's clock
UpgradeStatus == 101             \* the status the upgrade branch insists on

\* The script file's contents are numbered: 0 is what is on disk at start-up,
\* every write makes the next number.
NoScript == 0 - 1                \* workerManager has no current worker
ServeError == 0 - 2              \* a fetch that found no current worker

VARIABLES
    \* ---- start-up and hot reloader
    mainPc,        \* "starting" | "serving" | "exited": the main module's position
    runInProcess,  \* script.localInProcess
    fileVer,       \* the contents of the script file on disk
    nEvents,       \* events delivered so far (bounded by MaxEvents)
    pendingEvents, \* writes whose 'modify' event the watcher loop has not yet received
    timers,        \* pending timers: records [id, left]
    timeoutId,     \* the watcher loop's timeoutId (0: undefined)
    quiet,         \* ms since the last 'modify' event on the script path
    burstEvents,   \* events of the current burst
    burstReloads,  \* runScript calls the current burst has triggered
    lastEventVer,  \* the file's contents after the last 'modify' event
    runs,          \* runScript calls in flight: records
    nRuns,         \* runScript calls made by the timer
    active,        \* the script the sandbox is running (NoScript: none)
    handed,        \* the contents last handed to workerManager.run
    lastServed,    \* the script that answered the last request
    failedPrev,    \* reload failures: the script that ran before each
    \* ---- request bridge
    accepting,     \* the listener is bound and the accept loop is running
    conns,         \* per connection: the position of handle()'s loop
    cached,        \* memoize's `cached`
    fetchCount,    \* calls of fetchExternalIp
    cacheWrites,   \* assignments to `cached`
    firstFetch,    \* the first fetchExternalIp call: "none"|"pending"|"ok"|"failed"
    ipsPassed,     \* the cfConnectingIp values handed to the executor
    nReqs,         \* requests received
    done,          \* the request most recently finished
    \* ---- in-process mode
    objects,       \* the callbacks' `objects` (0: undefined, n: the n-th registry)
    nInfos,        \* onModuleWorkerInfo notifications so far
    lastNs         \* the last doNamespaceProvider call and what it returned

reloadVars == << mainPc, runInProcess, fileVer, nEvents, pendingEvents, timers,
                 timeoutId, quiet,
                 burstEvents, burstReloads, lastEventVer, runs, nRuns, active,
                 handed, lastServed, failedPrev >>
bridgeRest == << conns, cached, fetchCount, cacheWrites, firstFetch, ipsPassed,
                 nReqs, done >>
bridgeVars == << accepting, bridgeRest >>
inprocVars == << objects, nInfos, lastNs >>
vars == << reloadVars, bridgeVars, inprocVars >>

\* =====================================================================
\* Start-up and hot reloader (isolated-sandbox mode), src/cli.ts 28-95
\* =====================================================================

\* WorkerManager (src/worker_manager.ts) is not among the sources: its run
\* tears the previous instance down when called and installs the new one
\* when it completes; its fetch needs a current worker.
WorkerManagerRunCalled(cur) == NoScript
WorkerManagerRunCompleted(contents) == contents
WorkerManagerFetch(cur) == IF cur = NoScript THEN ServeError ELSE cur

\* clearTimeout(timeoutId): the timer of that id, if still pending, is dropped.
ClearTimeoutNoop(ts, id) == ts
ClearTimeout(ts, id) == { t \in ts : t.id # id }

\* setTimeout(runScript, 500): a new pending timer.
SetTimeout(ts, id) == ts \cup { [id |-> id, left |-> Debounce] }

\* event.kind === 'modify' && event.paths.includes(script.path)
IsScriptModifyAnyPath(kind, onScript) == kind = "modify"
IsScriptModify(kind, onScript) == kind = "modify" /\ onScript

\* computeScriptContents reads the file at some moment between the call and
\* its completion: any contents the file had in between.
ReadableContents(r) == r.startVer .. fileVer

\* The watcher exists once createLocalRequestServer has passed line 80.
Watching == mainPc = "serving" /\ ~runInProcess

InitialRun == [ id |-> 0, pc |-> "compute", startVer |-> 0, contents |-> NoScript,
                prev |-> NoScript, quietAtFire |-> 0, evVer |-> 0 ]

InitReloadPart ==
    /\ mainPc = "starting"
    /\ runInProcess \in BOOLEAN
    /\ fileVer = 0
    /\ nEvents = 0
    /\ pendingEvents = 0
    /\ timers = {}
    /\ timeoutId = 0
    /\ quiet = 0
    /\ burstEvents = 0
    /\ burstReloads = 0
    /\ lastEventVer = 0
    /\ runs = IF runInProcess THEN {} ELSE { InitialRun }
    /\ nRuns = 0
    /\ active = NoScript
    /\ handed = NoScript
    /\ lastServed = NoScript
    /\ failedPrev = {}

\* Where the main module stands after a failed run: Deno.exit(1) in the
\* catch of lines 72-75 (an uncaught rejection ends the process as well).
AfterRunFailureGoesOn == "serving"
AfterRunFailure == "exited"

\* The process ends: Deno.exit(1), or an uncaught rejection.
Exit(r) ==
    /\ mainPc' = AfterRunFailure
    /\ accepting' = (AfterRunFailure = "serving")
    /\ failedPrev' = IF r.id > 0 THEN failedPrev \cup { r.prev } ELSE failedPrev

\* WorkerExecution.start (line 60) completes or rejects.
StartInProcess(ok) ==
    /\ runInProcess
    /\ mainPc = "starting"
    /\ mainPc' = IF ok THEN "serving" ELSE "exited"
    /\ active' = IF ok THEN fileVer ELSE active
    /\ accepting' = ok
    /\ UNCHANGED << runInProcess, fileVer, nEvents, pendingEvents, timers, timeoutId, quiet,
                    burstEvents, burstReloads, lastEventVer, runs, nRuns, handed,
                    lastServed, failedPrev >>
    /\ UNCHANGED << bridgeRest, inprocVars >>

\* runScript, line 69: computeScriptContents completes with contents v, and
\* workerManager.run is called (line 71); or it rejects, outside the try.
ComputeDone(r, ok, v) ==
    /\ mainPc # "exited"
    /\ r \in runs
    /\ r.pc = "compute"
    /\ v \in ReadableContents(r)
    /\ IF ok
       THEN /\ runs' = (runs \ {r}) \cup { [r EXCEPT !.pc = "run", !.contents = v] }
            /\ active' = WorkerManagerRunCalled(active)
            /\ handed' = v
            /\ UNCHANGED << mainPc, failedPrev, accepting >>
       ELSE /\ Exit(r)
            /\ UNCHANGED << runs, active, handed >>
    /\ UNCHANGED << runInProcess, fileVer, nEvents, pendingEvents, timers, timeoutId, quiet,
                    burstEvents, burstReloads, lastEventVer, nRuns, lastServed >>
    /\ UNCHANGED << bridgeRest, inprocVars >>

\* runScript, lines 70-75: workerManager.run resolves, or rejects and the
\* catch calls Deno.exit(1). The initial run (line 77) lets the main module
\* go on to the watcher and the listener.
RunDone(r, ok) ==
    /\ mainPc # "exited"
    /\ r \in runs
    /\ r.pc = "run"
    /\ IF ok
       THEN /\ runs' = runs \ {r}
            /\ active' = WorkerManagerRunCompleted(r.contents)
            /\ mainPc' = IF r.id = 0 THEN "serving" ELSE mainPc
            /\ accepting' = IF r.id = 0 THEN TRUE ELSE accepting
            /\ UNCHANGED failedPrev
       ELSE /\ Exit(r)
            /\ UNCHANGED << runs, active >>
    /\ UNCHANGED << runInProcess, fileVer, nEvents, pendingEvents, timers, timeoutId, quiet,
                    burstEvents, burstReloads, lastEventVer, nRuns, handed,
                    lastServed >>
    /\ UNCHANGED << bridgeRest, inprocVars >>

\* The body of the watcher loop, lines 83-89, for one event. clearTimeout
\* drops the pending timer whether or not its time has passed.
OnWatchEvent(kind, onScript) ==
    /\ nEvents' = nEvents + 1
    /\ IF IsScriptModify(kind, onScript)
       THEN /\ timers' = SetTimeout(ClearTimeout(timers, timeoutId), nEvents + 1)
            /\ timeoutId' = nEvents + 1
            /\ quiet' = 0
            /\ lastEventVer' = fileVer
            /\ IF burstEvents = 0 \/ quiet >= Debounce
               THEN burstEvents' = 1 /\ burstReloads' = 0
               ELSE burstEvents' = burstEvents + 1 /\ UNCHANGED burstReloads
       ELSE UNCHANGED << timers, timeoutId, quiet, lastEventVer, burstEvents,
                         burstReloads >>

\* The script file is written. With the watcher running, Deno.watchFs will
\* deliver a 'modify' event for it, later.
FileWrite ==
    /\ mainPc # "exited"
    /\ fileVer < MaxWrites
    /\ fileVer' = fileVer + 1
    /\ IF Watching
       THEN /\ nEvents + pendingEvents < MaxEvents
            /\ pendingEvents' = pendingEvents + 1
            /\ UNCHANGED quiet
       ELSE /\ quiet' = 0
            /\ UNCHANGED pendingEvents
    /\ UNCHANGED << mainPc, runInProcess, nEvents, timers, timeoutId, lastEventVer,
                    burstEvents, burstReloads, runs, nRuns, active, handed,
                    lastServed, failedPrev >>
    /\ UNCHANGED << bridgeVars, inprocVars >>

\* The watcher loop (line 83) receives the 'modify' event of a write.
WatchEvent ==
    /\ Watching
    /\ pendingEvents > 0
    /\ nEvents < MaxEvents
    /\ pendingEvents' = pendingEvents - 1
    /\ OnWatchEvent("modify", TRUE)
    /\ UNCHANGED << mainPc, runInProcess, fileVer, runs, nRuns, active, handed,
                    lastServed, failedPrev >>
    /\ UNCHANGED << bridgeVars, inprocVars >>

\* The watcher loop receives an event that belongs to no new contents: the
\* second 'modify' event of one write, an event of another kind, an event
\* for another path.
FsEvent(kind, onScript) ==
    /\ Watching
    /\ nEvents + pendingEvents < MaxEvents
    /\ OnWatchEvent(kind, onScript)
    /\ UNCHANGED << mainPc, runInProcess, fileVer, pendingEvents, runs, nRuns,
                    active, handed, lastServed, failedPrev >>
    /\ UNCHANGED << bridgeVars, inprocVars >>

\* Time passes. A timer whose time has passed stays pending until its
\* callback runs: setTimeout promises "not before", and the event loop may
\* hand the watcher its next event first.
Tick ==
    /\ Watching
    /\ burstEvents > 0
    /\ quiet <= Debounce
    /\ quiet' = quiet + Step
    /\ timers' = { [t EXCEPT !.left = IF t.left > Step THEN t.left - Step ELSE 0] :
                   t \in timers }
    /\ UNCHANGED << mainPc, runInProcess, fileVer, nEvents, pendingEvents, timeoutId,
                    burstEvents, burstReloads, lastEventVer, runs, nRuns, active,
                    handed, lastServed, failedPrev >>
    /\ UNCHANGED << bridgeVars, inprocVars >>

\* A timer expires and calls runScript (lines 66-69, up to the first await).
TimerFire(t) ==
    /\ mainPc = "serving"
    /\ t \in timers
    /\ t.left = 0
    /\ timers' = timers \ {t}
    /\ nRuns' = nRuns + 1
    /\ runs' = runs \cup { [ id |-> nRuns + 1, pc |-> "compute", startVer |-> fileVer,
                             contents |-> NoScript, prev |-> active,
                             quietAtFire |-> quiet, evVer |-> lastEventVer ] }
    /\ burstReloads' = burstReloads + 1
    /\ UNCHANGED << mainPc, runInProcess, fileVer, nEvents, pendingEvents, timeoutId, quiet,
                    burstEvents, lastEventVer, active, handed, lastServed,
                    failedPrev >>
    /\ UNCHANGED << bridgeVars, inprocVars >>

\* A request is answered by whatever the sandbox is running.
Serve ==
    /\ mainPc = "serving"
    /\ lastServed' = WorkerManagerFetch(active)
    /\ UNCHANGED << mainPc, runInProcess, fileVer, nEvents, pendingEvents, timers, timeoutId, quiet,
                    burstEvents, burstReloads, lastEventVer, runs, nRuns, active,
                    handed, failedPrev >>
    /\ UNCHANGED << bridgeVars, inprocVars >>

\* =====================================================================
\* In-process mode, src/cli.ts 43-60
\* =====================================================================

Namespaces == { "ROOMS", "COUNTERS" }

NoNamespace == [ called |-> FALSE, ns |-> "", stub |-> FALSE, registry |-> 0,
                 infosAtCall |-> 0 ]

InitInProcPart ==
    /\ objects = 0
    /\ nInfos = 0
    /\ lastNs = NoNamespace

\* doNamespaceProvider, lines 53-57: the stub while `objects` is undefined,
\* else objects.resolveDoNamespace(doNamespace).
DoNamespaceProviderStubOnly(objs, ns) == [ stub |-> TRUE, registry |-> 0 ]
DoNamespaceProvider(objs, ns) ==
    IF objs = 0 THEN [ stub |-> TRUE, registry |-> 0 ]
    ELSE [ stub |-> FALSE, registry |-> objs ]

\* onModuleWorkerInfo, lines 47-50: WorkerExecution reports the loaded
\* module's exports and a new registry is built from them.
OnModuleWorkerInfo ==
    /\ runInProcess
    /\ mainPc # "exited"
    /\ nInfos < MaxInfos
    /\ nInfos' = nInfos + 1
    /\ objects' = nInfos + 1
    /\ UNCHANGED lastNs
    /\ UNCHANGED << reloadVars, bridgeVars >>

\* WorkerExecution asks for a durable-object namespace (while it resolves
\* the bindings, before or after the notification).
ResolveDoNamespace(ns) ==
    /\ runInProcess
    /\ mainPc # "exited"
    /\ LET r == DoNamespaceProvider(objects, ns) IN
       lastNs' = [ called |-> TRUE, ns |-> ns, stub |-> r.stub,
                   registry |-> r.registry, infosAtCall |-> nInfos ]
    /\ UNCHANGED << objects, nInfos >>
    /\ UNCHANGED << reloadVars, bridgeVars >>

\* Time passes in in-process mode: no watcher and no timer exist (the
\* branch returns at line 60), only the clock since the last write moves.
TickInProcess ==
    /\ runInProcess
    /\ mainPc = "serving"
    /\ quiet <= Debounce
    /\ quiet' = quiet + Step
    /\ UNCHANGED << mainPc, runInProcess, fileVer, nEvents, pendingEvents, timers, timeoutId,
                    burstEvents, burstReloads, lastEventVer, runs, nRuns, active,
                    handed, lastServed, failedPrev >>
    /\ UNCHANGED << bridgeVars, inprocVars >>

\* =====================================================================
\* The request bridge, src/cli.ts 98-166
\* =====================================================================

Conns == 1 .. MaxConns
IPs == { "203.0.113.7", "198.51.100.9" }

\* request.headers.get('upgrade'): "null" is the absent header.
Headers == { "null", "", "websocket", "gzip" }

\* What localRequestServer.fetch produces: a native Response, a
\* DenoflareResponse (ws: init.webSocket is set; sock: its
\* getDenoflareServerWebSocket() is defined), or a rejection.
Responses ==
    [ kind : {"real"}, status : {200}, ws : {FALSE}, sock : {FALSE} ]
    \cup [ kind : {"denoflare"}, status : {200}, ws : {FALSE}, sock : {FALSE} ]
    \cup [ kind : {"denoflare"}, status : {UpgradeStatus, 200}, ws : {TRUE}, sock : BOOLEAN ]
    \cup [ kind : {"throw"}, status : {0}, ws : {FALSE}, sock : {FALSE} ]

NoResponse == [ kind |-> "none", status |-> 0, ws |-> FALSE, sock |-> FALSE ]

\* A connection's record: the position of handle()'s loop and the request it
\* is servicing (hs: Deno.upgradeWebSocket accepts the request; res: the
\* executor's answer being written; wired: setRealWebsocket calls).
IdleConn == [ st |-> "idle", header |-> "null", hs |-> FALSE, first |-> FALSE,
              upgraded |-> FALSE, calls |-> << >>, res |-> NoResponse, wired |-> 0 ]

NoRequest == [ n |-> 0, conn |-> 0, header |-> "null", hs |-> FALSE,
               ipFailed |-> FALSE, firstWas |-> "none",
               res |-> NoResponse, upgraded |-> FALSE,
               execCalled |-> FALSE, wired |-> 0, responded |-> FALSE,
               clientStatus |-> 0, calls |-> << >> ]

InitBridgePart ==
    /\ conns = [ c \in Conns |-> [IdleConn EXCEPT !.st = "unaccepted"] ]
    /\ cached = "undefined"
    /\ fetchCount = 0
    /\ cacheWrites = 0
    /\ firstFetch = "none"
    /\ ipsPassed = {}
    /\ nReqs = 0
    /\ done = NoRequest

\* const upgrade = request.headers.get('upgrade') || undefined  (line 127)
UpgradeOf(h) == IF h = "null" \/ h = "" THEN "undefined" ELSE h

\* if (upgrade !== 'websocket') throw ...  (line 130)
UnsupportedUpgradeNever(u) == FALSE
UnsupportedUpgrade(u) == u # "websocket"

\* Whether Deno.upgradeWebSocket (line 131) can accept a request of this
\* Upgrade header: it throws for a request that is not a complete WebSocket
\* handshake (no Sec-WebSocket-Key, no 'Connection: upgrade').
HandshakeInputs(h) == IF h = "websocket" THEN BOOLEAN ELSE { FALSE }

\* The loop's position after the catch of line 155: the next request.
AfterCatchLoopEnds == "closed"
AfterCatch == "idle"

\* The request of connection c ends in the catch of lines 155-157
\* (firstWas: for a failed IP lookup, how the process's first fetch stood).
Failed(c, h, hs, ipFailed, res, upgraded, calls) ==
    /\ conns' = [conns EXCEPT ![c] = [IdleConn EXCEPT !.st = AfterCatch]]
    /\ done' = [ n |-> done.n + 1, conn |-> c, header |-> h, hs |-> hs,
                 ipFailed |-> ipFailed,
                 firstWas |-> IF ipFailed THEN firstFetch' ELSE "none",
                 res |-> res, upgraded |-> upgraded,
                 execCalled |-> (\E i \in DOMAIN calls : calls[i] = "fetch"),
                 wired |-> 0, responded |-> FALSE,
                 clientStatus |-> 0, calls |-> calls ]

\* What each branch calls, in order, once it is entered: the upgrade branch
\* Deno.upgradeWebSocket (line 131) and then localRequestServer.fetch (line
\* 139); the normal branch localRequestServer.fetch (line 149).
UpgradeBranchCallsFetchFirst == << "fetch", "upgradeWebSocket" >>
UpgradeBranchCalls == << "upgradeWebSocket", "fetch" >>
NormalBranchCalls == << "fetch" >>

\* The calls made when the first call of a branch throws.
ThrownAtFirst(calls) == SubSeq(calls, 1, 1)

\* handle, lines 126-139 and 149: from the resolved cfConnectingIp to the
\* call of localRequestServer.fetch. The upgrade branch ends in the catch
\* for an unsupported value (line 130) and when Deno.upgradeWebSocket throws
\* (line 131).
AfterIp(c, h, hs, ip) ==
    LET upgrade == UpgradeOf(h) IN
    IF upgrade # "undefined" /\ UnsupportedUpgrade(upgrade)
    THEN /\ Failed(c, h, hs, FALSE, NoResponse, FALSE, << >>)
         /\ UNCHANGED ipsPassed
    ELSE IF upgrade # "undefined" /\ ~hs
    THEN /\ Failed(c, h, hs, FALSE, NoResponse, FALSE, ThrownAtFirst(UpgradeBranchCalls))
         /\ UNCHANGED ipsPassed
    ELSE /\ conns' = [conns EXCEPT ![c] =
                        [ st |-> "execWait", header |-> h, hs |-> hs, first |-> FALSE,
                          upgraded |-> (upgrade # "undefined"),
                          calls |-> IF upgrade # "undefined" THEN UpgradeBranchCalls
                                    ELSE NormalBranchCalls,
                          res |-> NoResponse, wired |-> 0 ]]
         /\ ipsPassed' = ipsPassed \cup {ip}
         /\ UNCHANGED done

\* The connections whose handle() the accept loop waits for before it takes
\* the next connection: none, handle(conn) is not awaited (line 165).
AcceptWaitsForBusy(cs) ==
    { d \in Conns : cs[d].st \in {"ipWait", "execWait", "respondWait"} }
AcceptWaitsFor(cs) == {}

\* The accept loop, lines 164-166: the next connection is handed to handle.
Accept(c) ==
    /\ mainPc = "serving"
    /\ accepting
    /\ AcceptWaitsFor(conns) = {}
    /\ conns[c].st = "unaccepted"
    /\ \A d \in Conns : d < c => conns[d].st # "unaccepted"
    /\ conns' = [conns EXCEPT ![c] = IdleConn]
    /\ UNCHANGED << accepting, cached, fetchCount, cacheWrites, firstFetch, ipsPassed,
                    nReqs, done >>
    /\ UNCHANGED << reloadVars, inprocVars >>

\* handle, lines 123-125: a request arrives and computeExternalIp runs up to
\* its first await (memoize, lines 100-102).
RequestArrives(c, h, hs) ==
    /\ mainPc = "serving"
    /\ conns[c].st = "idle"
    /\ nReqs < MaxReqs
    /\ nReqs' = nReqs + 1
    /\ IF cached # "undefined"
       THEN /\ AfterIp(c, h, hs, cached)
            /\ UNCHANGED << fetchCount, firstFetch >>
       ELSE /\ fetchCount' = fetchCount + 1
            /\ firstFetch' = IF fetchCount = 0 THEN "pending" ELSE firstFetch
            /\ conns' = [conns EXCEPT ![c] =
                           [IdleConn EXCEPT !.st = "ipWait", !.header = h, !.hs = hs,
                                            !.first = (fetchCount = 0)]]
            /\ UNCHANGED << ipsPassed, done >>
    /\ UNCHANGED << accepting, cached, cacheWrites >>
    /\ UNCHANGED << reloadVars, inprocVars >>

\* fetchExternalIp (lines 108-117) completes: memoize stores the value
\* (lines 102-104) and handle goes on; or it rejects.
FetchExternalIpDone(c, out) ==
    /\ mainPc = "serving"
    /\ conns[c].st = "ipWait"
    /\ IF out = "throw"
       THEN /\ firstFetch' = IF conns[c].first THEN "failed" ELSE firstFetch
            /\ Failed(c, conns[c].header, conns[c].hs, TRUE, NoResponse, FALSE, << >>)
            /\ UNCHANGED << cached, cacheWrites, ipsPassed >>
       ELSE /\ cached' = out
            /\ cacheWrites' = cacheWrites + 1
            /\ firstFetch' = IF conns[c].first THEN "ok" ELSE firstFetch
            /\ AfterIp(c, conns[c].header, conns[c].hs, out)
    /\ UNCHANGED << accepting, fetchCount, nReqs >>
    /\ UNCHANGED << reloadVars, inprocVars >>

\* DenoflareResponse.is(res)  (lines 140, 150)
IsDenoflare(res) == res.kind = "denoflare"

\* res.init?.status !== 101  (line 141)
BadStatusNever(res) == FALSE
BadStatus(res) == res.status # UpgradeStatus

\* Deno.upgradeWebSocket(request).response (line 131): the handshake reply.
NativeUpgradeResponse == [ status |-> 101 ]

\* What handling a response ends in: a throw, or a respondWith.
Thrown == [ wired |-> 0, responded |-> FALSE, status |-> 0 ]
Replied(wired, status) == [ wired |-> wired, responded |-> TRUE, status |-> status ]

\* DenoflareResponse.toRealResponse (src/denoflare_response.ts, not among
\* the sources): a deferred WebSocket response has no native form.
ToRealResponse(res) == IF res.ws THEN Thrown ELSE Replied(0, res.status)

\* handle, lines 139-146 (upgrade) and 149-153 (normal), for the executor's
\* answer res.
HandleResult(upgraded, res) ==
    IF res.kind = "throw" THEN Thrown
    ELSE IF upgraded
    THEN IF IsDenoflare(res) /\ res.ws
         THEN IF BadStatus(res) THEN Thrown
              ELSE IF ~res.sock THEN Thrown
              ELSE Replied(1, NativeUpgradeResponse.status)
         ELSE Replied(0, NativeUpgradeResponse.status)
    ELSE IF IsDenoflare(res) THEN ToRealResponse(res)
    ELSE Replied(0, res.status)

\* localRequestServer.fetch completes with res; handle deals with it (lines
\* 140-145, 150-152) and calls respondWith (lines 146, 153), which it awaits;
\* or handle throws and the request ends in the catch.
ExecutorFetchDone(c, res) ==
    /\ mainPc = "serving"
    /\ conns[c].st = "execWait"
    /\ LET r == HandleResult(conns[c].upgraded, res) IN
       IF r.responded
       THEN /\ conns' = [conns EXCEPT ![c].st = "respondWait", ![c].res = res,
                                      ![c].wired = r.wired]
            /\ UNCHANGED done
       ELSE Failed(c, conns[c].header, conns[c].hs, FALSE, res, conns[c].upgraded,
                   conns[c].calls)
    /\ UNCHANGED << accepting, cached, fetchCount, cacheWrites, firstFetch, ipsPassed,
                    nReqs >>
    /\ UNCHANGED << reloadVars, inprocVars >>

\* respondWith settles (lines 146, 153): the reply has been written, or it
\* failed and the .catch logged it (transportOk FALSE: the client receives
\* nothing). The loop goes on to the next request.
RespondWithDone(c, transportOk) ==
    /\ mainPc = "serving"
    /\ conns[c].st = "respondWait"
    /\ LET r == HandleResult(conns[c].upgraded, conns[c].res) IN
       done' = [ n |-> done.n + 1, conn |-> c, header |-> conns[c].header,
                 hs |-> conns[c].hs, ipFailed |-> FALSE, firstWas |-> "none",
                 res |-> conns[c].res, upgraded |-> conns[c].upgraded,
                 execCalled |-> TRUE, wired |-> conns[c].wired, responded |-> TRUE,
                 clientStatus |-> IF transportOk THEN r.status ELSE 0,
                 calls |-> conns[c].calls ]
    /\ conns' = [conns EXCEPT ![c] = IdleConn]
    /\ UNCHANGED << accepting, cached, fetchCount, cacheWrites, firstFetch, ipsPassed,
                    nReqs >>
    /\ UNCHANGED << reloadVars, inprocVars >>

\* The peer closes the connection between two requests: handle's loop ends.
ConnClose(c) ==
    /\ mainPc = "serving"
    /\ conns[c].st = "idle"
    /\ conns' = [conns EXCEPT ![c] = [IdleConn EXCEPT !.st = "closed"]]
    /\ UNCHANGED << accepting, cached, fetchCount, cacheWrites, firstFetch, ipsPassed,
                    nReqs, done >>
    /\ UNCHANGED << reloadVars, inprocVars >>

\* =====================================================================
\* Specifications
\* =====================================================================

\* The process from its start: start-up, the reloader, and requests seen
\* only as "answered by the running script".
InitReload ==
    /\ InitReloadPart
    /\ accepting = FALSE
    /\ InitBridgePart
    /\ InitInProcPart

NextReload ==
    \/ \E ok \in BOOLEAN : StartInProcess(ok)
    \/ \E r \in runs, ok \in BOOLEAN, v \in 0 .. MaxWrites : ComputeDone(r, ok, v)
    \/ \E r \in runs, ok \in BOOLEAN : RunDone(r, ok)
    \/ FileWrite
    \/ WatchEvent
    \/ \E kind \in {"modify", "access"}, onScript \in BOOLEAN : FsEvent(kind, onScript)
    \/ Tick
    \/ \E t \in timers : TimerFire(t)
    \/ Serve

SpecReload == InitReload /\ [][NextReload]_vars

\* The bridge, from the moment the listener is bound (line 161) after a
\* successful isolated-sandbox start.
Init ==
    /\ mainPc = "serving"
    /\ runInProcess = FALSE
    /\ fileVer = 0
    /\ nEvents = 0
    /\ pendingEvents = 0
    /\ timers = {}
    /\ timeoutId = 0
    /\ quiet = 0
    /\ burstEvents = 0
    /\ burstReloads = 0
    /\ lastEventVer = 0
    /\ runs = {}
    /\ nRuns = 0
    /\ active = 0
    /\ handed = 0
    /\ lastServed = NoScript
    /\ failedPrev = {}
    /\ accepting = TRUE
    /\ InitBridgePart
    /\ InitInProcPart

Next ==
    \/ \E c \in Conns : Accept(c)
    \/ \E c \in Conns, h \in Headers : \E hs \in HandshakeInputs(h) :
            RequestArrives(c, h, hs)
    \/ \E c \in Conns, out \in IPs \cup {"throw"} : FetchExternalIpDone(c, out)
    \/ \E c \in Conns, res \in Responses : ExecutorFetchDone(c, res)
    \/ \E c \in Conns, transportOk \in BOOLEAN : RespondWithDone(c, transportOk)
    \/ \E c \in Conns : ConnClose(c)

Spec == Init /\ [][Next]_vars

\* Start-up followed by the bridge, without file modifications.
NextStart ==
    \/ \E ok \in BOOLEAN : StartInProcess(ok)
    \/ \E r \in runs, ok \in BOOLEAN, v \in 0 .. MaxWrites : ComputeDone(r, ok, v)
    \/ \E r \in runs, ok \in BOOLEAN : RunDone(r, ok)
    \/ Next

SpecStart == InitReload /\ [][NextStart]_vars

\* In-process mode from the start of the process.
InitInProcess == InitReload /\ runInProcess

NextInProcess ==
    \/ \E ok \in BOOLEAN : StartInProcess(ok)
    \/ OnModuleWorkerInfo
    \/ \E ns \in Namespaces : ResolveDoNamespace(ns)
    \/ FileWrite
    \/ TickInProcess
    \/ Serve

SpecInProcess == InitInProcess /\ [][NextInProcess]_vars

\* =====================================================================
\* Claims
\* =====================================================================

\* What holds of every reload the timer makes and of the burst in course:
\* never two runScript calls for one burst; a call is made 500 ms or more
\* after the last 'modify' event handled, by the timer that event set (the
\* only one pending), and reads the file as it was when that event was
\* handled or newer; once the burst's timer has fired the burst has had its
\* one call.
DebounceState ==
    /\ burstReloads <= 1
    /\ Cardinality(timers) <= 1
    /\ \A t \in timers : t.id = timeoutId
    /\ \A r \in runs :
          r.id > 0 => /\ r.quietAtFire >= Debounce
                      /\ r.startVer >= r.evVer
                      /\ (r.pc = "run" => r.contents >= r.evVer)
    /\ (Watching /\ burstEvents > 0 /\ timers = {}) => burstReloads = 1

\* A step that ends a burst: a 'modify' event on the script path handled
\* 500 ms or more after the one before.
BurstEnds ==
    /\ burstEvents > 0
    /\ quiet >= Debounce
    /\ timeoutId' # timeoutId

\* C1 as stated (SpecReload): every burst of 'modify' events on the script
\* path, each less than 500 ms after the one before, triggers exactly one
\* runScript call, made after the burst's last event and reading the contents
\* as they are after that event: when a burst ends it has had its one call.
C1_DebounceOneReload ==
    /\ []DebounceState
    /\ [][ BurstEnds => burstReloads = 1 ]_vars

\* C1 as amended (SpecReload): every burst triggers at most one runScript
\* call, made 500 ms or more after the burst's last event and reading the
\* contents as they are after that event; a burst ends without its call only
\* when the event that ends it is handled while the burst's timer, its time
\* passed, has not run yet, and that event cancels the timer and sets the
\* one whose call reloads instead.
C1_DebounceAtMostOneReload ==
    /\ []DebounceState
    /\ [][ (BurstEnds /\ burstReloads # 1)
             => /\ burstReloads = 0
                /\ \E t \in timers : /\ t.left = 0
                                     /\ t.id = timeoutId
                                     /\ t \notin timers'
                /\ \E t \in timers' : t.id = timeoutId' /\ t.left = Debounce ]_vars

\* A burst of two events has had its single reload, which read the
\* contents written by the burst's last event.
C1_Witness ==
    /\ Watching
    /\ burstEvents >= 2
    /\ burstReloads = 1
    /\ lastEventVer > 0
    /\ \E r \in runs : r.id > 0 /\ r.pc = "run" /\ r.contents = lastEventVer

\* C2 (SpecReload): a reload that fails (computeScriptContents rejects, or
\* workerManager.run rejects) is not fatal: the process and the listener
\* keep running and the script that ran before the reload is still the one
\* answering.
C2_ReloadFailureNonFatal ==
    failedPrev # {} => (mainPc = "serving" /\ accepting /\ active \in failedPrev)

\* C3: fetchExternalIp is called at most once in the life of the process.
C3_FetchAtMostOnce == fetchCount <= 1

\* C4: an 'Upgrade: websocket' request is answered 101 only if the executor
\* returned a deferred WebSocket response; after an ordinary response the
\* client's status is not 101.
C4_UpgradeOnlyWhenDeferred ==
    (done.n > 0 /\ done.header = "websocket" /\ done.clientStatus = UpgradeStatus)
        => (done.res.kind = "denoflare" /\ done.res.ws)

\* C5 as stated: a request whose Upgrade header has any value other than
\* 'websocket' is rejected with an error, with neither the native handshake
\* nor the executor's fetch (neither is called).
C5_AnyOtherUpgradeRejected ==
    (done.n > 0 /\ done.header \notin {"null", "websocket"})
        => (~done.responded /\ ~done.upgraded /\ ~done.execCalled /\ done.calls = << >>)

\* C5 as amended: a request whose Upgrade header has a non-empty value other
\* than 'websocket' is rejected with an error, with neither the native
\* handshake nor the executor's fetch (an empty value counts as no header).
C5_NonEmptyOtherUpgradeRejected ==
    (done.n > 0 /\ done.header \notin {"null", "", "websocket"})
        => (~done.responded /\ ~done.upgraded /\ ~done.execCalled /\ done.calls = << >>)

\* An 'Upgrade: gzip' request got past the IP step and was rejected.
C5_Witness ==
    /\ done.n > 0
    /\ done.header = "gzip"
    /\ ~done.ipFailed
    /\ ~done.responded

\* C6: a request whose executor call rejects is still answered: respondWith
\* is called for it.
C6_ExecutorErrorAnswered ==
    (done.n > 0 /\ done.res.kind = "throw") => done.responded

\* C7: whatever goes wrong while one request is serviced (IP lookup, upgrade
\* header, executor, deferred status, translation, respondWith), the step
\* that ends the request leaves the connection's loop waiting for the next
\* request and the accept loop running.
C7_ErrorsKeepLoopsRunning ==
    [][ \A c \in Conns :
          ( /\ done'.n # done.n
            /\ done'.conn = c
            /\ (~done'.responded \/ done'.clientStatus = 0) )
          => (conns'[c].st = "idle" /\ accepting') ]_vars

\* A request ended in the catch, and a later request of the same connection
\* has reached the executor.
C7_Witness ==
    /\ done.n > 0
    /\ ~done.responded
    /\ conns[done.conn].st = "execWait"
    /\ accepting

\* C8: setRealWebsocket is called at most once per request, and only for an
\* 'Upgrade: websocket' request answered by a deferred WebSocket response of
\* status 101; a deferred WebSocket response of any other status wires
\* nothing and nothing reaches the client. Stated of the finished request and
\* of every request whose reply is being written.
C8_WiringOnlyOn101 ==
    /\ done.n > 0 =>
        /\ done.wired <= 1
        /\ done.wired = 1 => /\ done.header = "websocket"
                             /\ done.res.kind = "denoflare"
                             /\ done.res.ws
                             /\ done.res.status = UpgradeStatus
        /\ (done.res.ws /\ done.res.status # UpgradeStatus)
              => (done.wired = 0 /\ ~done.responded /\ done.clientStatus = 0)
    /\ \A c \in Conns :
        /\ conns[c].wired <= 1
        /\ conns[c].wired = 1 => /\ conns[c].header = "websocket"
                                 /\ conns[c].res.kind = "denoflare"
                                 /\ conns[c].res.ws
                                 /\ conns[c].res.status = UpgradeStatus
        /\ (conns[c].res.ws /\ conns[c].res.status # UpgradeStatus)
              => conns[c].st # "respondWait"

\* An upgrade request was wired after a deferred response of status 101.
C8_Witness ==
    /\ done.n > 0
    /\ done.header = "websocket"
    /\ done.res.ws
    /\ done.res.status = UpgradeStatus
    /\ done.wired = 1

\* C9: once the first fetch of the process has succeeded, no request fails
\* at the external-IP step (a request fails there only if the very first
\* fetch failed), and the value is cached for every later request.
C9_IpFailureOnlyOnFirstFetch ==
    /\ (done.n > 0 /\ done.ipFailed) => done.firstWas # "ok"
    /\ firstFetch = "ok" => cached # "undefined"

\* C10: memoize's slot is written at most once, and every request hands the
\* same cfConnectingIp to the executor.
C10_SlotWrittenOnce ==
    /\ cacheWrites <= 1
    /\ Cardinality(ipsPassed) <= 1

\* C11 (SpecInProcess): doNamespaceProvider returns the 'not implemented
\* locally' stub exactly when onModuleWorkerInfo has not fired before the
\* call, and after it has fired a namespace resolved from the registry that
\* the notification built.
C11_StubExactlyBeforeInfo ==
    lastNs.called =>
        /\ lastNs.stub <=> (lastNs.infosAtCall = 0)
        /\ ~lastNs.stub => lastNs.registry = lastNs.infosAtCall

\* A namespace was asked for after the notification and came from the
\* registry.
C11_Witness ==
    /\ lastNs.called
    /\ lastNs.infosAtCall > 0
    /\ ~lastNs.stub
    /\ lastNs.registry = objects

\* C12 (SpecInProcess): in in-process mode a modification of the script
\* file is picked up: once the debounce interval has passed since a write
\* that the running script does not yet contain, a reload (the executor
\* swap) has been started.
C12_InProcessReloads ==
    (runInProcess /\ mainPc = "serving" /\ fileVer > active /\ quiet > Debounce)
        => (nRuns > 0 \/ runs # {})

\* C13: connections are serviced independently: while a request of one
\* connection waits for the IP lookup, for the executor or for its reply to
\* be written, the accept loop can take the next connection and every other
\* connection can take its own next step (receive a request, finish its IP
\* lookup, finish its executor call, finish its reply).
C13_ConnectionsIndependent ==
    \A c, d \in Conns :
        (c # d /\ conns[c].st \in {"ipWait", "execWait", "respondWait"}) =>
            /\ (conns[d].st = "unaccepted" /\ \A e \in Conns : e < d => conns[e].st # "unaccepted")
                  => ENABLED Accept(d)
            /\ (conns[d].st = "idle" /\ nReqs < MaxReqs)
                  => ENABLED RequestArrives(d, "null", FALSE)
            /\ conns[d].st = "ipWait"
                  => ENABLED FetchExternalIpDone(d, "203.0.113.7")
            /\ conns[d].st = "execWait"
                  => ENABLED ExecutorFetchDone(d, [ kind |-> "real", status |-> 200,
                                                    ws |-> FALSE, sock |-> FALSE ])
            /\ conns[d].st = "respondWait"
                  => ENABLED RespondWithDone(d, TRUE)

\* While connection 1 waits for the executor, a request of connection 2 has
\* been answered.
C13_Witness ==
    /\ conns[1].st = "execWait"
    /\ done.n > 0
    /\ done.conn = 2
    /\ done.responded
    /\ done.clientStatus = 200

\* C14 (SpecStart): in isolated-sandbox mode the listener is bound, a
\* connection accepted and a request handled only after the initial
\* workerManager.run has completed successfully; while the initial run is
\* pending, and after it has failed (the process has exited), the listener
\* is not bound and nothing has been accepted or handled.
C14_InitialRunPrecedesServing ==
    ~runInProcess =>
        /\ (accepting \/ nReqs > 0 \/ \E c \in Conns : conns[c].st # "unaccepted")
              => (\A r \in runs : r.id # 0) /\ active # NoScript
        /\ (\E r \in runs : r.id = 0)
              => /\ ~accepting
                 /\ nReqs = 0
                 /\ done.n = 0
                 /\ \A c \in Conns : conns[c].st = "unaccepted"
                 /\ mainPc \in {"starting", "exited"}

\* After a successful initial run a request has been answered.
C14_Witness ==
    /\ ~runInProcess
    /\ runs = {}
    /\ active = 0
    /\ done.n > 0
    /\ done.responded

\* The native handshake precedes the executor's fetch in a request's calls,
\* and the fetch is made exactly once.
UpgradeThenOneFetch(calls) ==
    LET F == { i \in DOMAIN calls : calls[i] = "fetch" }
        U == { i \in DOMAIN calls : calls[i] = "upgradeWebSocket" }
    IN  /\ Cardinality(F) = 1
        /\ Cardinality(U) = 1
        /\ \A u \in U, f \in F : u < f

\* C15 as stated: for every request with 'Upgrade: websocket' the native
\* handshake happens before the executor's fetch is invoked, and the
\* executor is invoked exactly once for the request.
C15_EveryUpgradeHandshakeThenFetch ==
    (done.n > 0 /\ done.header = "websocket") => UpgradeThenOneFetch(done.calls)

\* C15 as amended: the same for every request with 'Upgrade: websocket'
\* whose external-IP lookup succeeded and whose handshake
\* Deno.upgradeWebSocket accepts, both while the executor call or the reply
\* is pending and when the request has ended; a request that fails at the IP
\* step reaches neither the handshake nor the executor, and one whose
\* handshake is refused does not reach the executor.
C15_HandshakeThenFetchAfterIp ==
    /\ (done.n > 0 /\ done.header = "websocket")
          => IF done.ipFailed THEN done.calls = << >>
             ELSE IF ~done.hs THEN /\ ~done.execCalled
                                   /\ ~done.upgraded
                                   /\ done.calls = << "upgradeWebSocket" >>
             ELSE UpgradeThenOneFetch(done.calls)
    /\ \A c \in Conns :
          (conns[c].st \in {"execWait", "respondWait"} /\ conns[c].header = "websocket")
              => (conns[c].hs /\ UpgradeThenOneFetch(conns[c].calls))

\* An 'Upgrade: websocket' request went through the handshake and the
\* executor and was answered.
C15_Witness ==
    /\ done.n > 0
    /\ done.header = "websocket"
    /\ done.hs
    /\ done.upgraded
    /\ done.execCalled
    /\ done.responded

\* C16 (SpecReload): reloads do not race: when the watcher is quiet (every
\* write's event handled, no timer pending) and every started runScript has
\* finished, the contents last handed to workerManager.run are those of the
\* file after the last modification.
C16_LatestContentsWin ==
    (Watching /\ nRuns > 0 /\ pendingEvents = 0 /\ lastEventVer = fileVer
        /\ timers = {} /\ runs = {}) => handed = fileVer

\* C17 (SpecReload): an event that is not a 'modify' of the script path
\* leaves the reloader as it was: no timer is cancelled, none is scheduled,
\* the pending timer keeps its remaining time, and no reload is started.
C17_OtherEventsIgnored ==
    [][ (\E kind \in {"modify", "access"}, onScript \in BOOLEAN :
            /\ ~(kind = "modify" /\ onScript)
            /\ FsEvent(kind, onScript))
        => /\ timers' = timers
           /\ timeoutId' = timeoutId
           /\ runs' = runs
           /\ nRuns' = nRuns ]_vars

\* A timer set by an earlier event is due at its original time although a
\* later event, which it ignored, has arrived since.
C17_Witness ==
    /\ Watching
    /\ quiet = Debounce
    /\ \E t \in timers : t.id < nEvents /\ t.left = 0 /\ t.id = timeoutId

====
